---- MODULE Spec2Model ----
(***************************************************************************)
(* run_yoga_session of yoga_agent.py: a coordinator that walks the parsed  *)
(* segments in order, plays narrations and waits out holds, while a        *)
(* ThreadPoolExecutor synthesises upcoming narrations in the background.   *)
(*                                                                         *)
(* Segment indices, next_to_process and seg_idx are 0-based as in the      *)
(* Python; TLA+ sequences are 1-based, so segment i is segments[i + 1].    *)
(* A future is identified by its submission number (1, 2, ...); the temp   *)
(* file a successful future returns is identified by the same number, and  *)
(* None is 0.  Time is counted in ticks of one polling interval (0.1 s).   *)
(*                                                                         *)
(* The second part models parse_session on token sequences and the         *)
(* persisted mode, generate_session_audio followed by play_session_audio.  *)
(***************************************************************************)
EXTENDS Integers, Sequences, FiniteSets, TLC

\* ------------------------------------------------------------- bounds
MaxSegs == 4
MaxBuffer == 2
MaxSleepTicks == 2
MaxBackToBack == 5
MaxAhead == 3

\* ------------------------------------------------- program constants
max_workers == 3
TicksPerSecond == 10

VARIABLES
    segments,            \* parse_session(session_text): the session
    buffer_size,         \* the look-ahead parameter
    pc,                  \* the coordinator's position in run_yoga_session
    seg_idx,             \* the main loop's index
    prime_i,             \* the priming loop's index
    next_to_process,     \* index into narration_segments of the next submit
    futures,             \* futures[f]: state of the f-th submitted future
    submitLog,           \* submitLog[f]: segment index the f-th submit was for
    future_to_index,     \* outstanding futures -> segment index
    processed_segments,  \* segment index -> temp file (future number) or 0
    elapsed,             \* time.time() - hold_start, in ticks
    executor_shutdown,   \* executor.shutdown(wait=True) has returned
    events,              \* the playback timeline observed so far
    files,               \* temp files that exist on disk
    sinkLog,             \* play_audio_file's ffplay runs and os.remove calls
    \* persisted mode: generate_session_audio and play_session_audio
    text,                \* the session text, a sequence of tokens
    parsed,              \* parse_session(text)
    gpc,                 \* position in generate_session_audio / play_session_audio
    gen_i,               \* generate_session_audio's loop index i
    narration_count,     \* generate_session_audio's narration_count
    segment_info,        \* generate_session_audio's segment_info
    info_file,           \* the lines of segments.txt
    disk,                \* the audio files under audio_dir
    loaded,              \* play_session_audio's segments
    play_i,              \* play_session_audio's loop position
    played               \* play_session_audio's playback and sleep timeline

\* The state of run_yoga_session, and the state of the persisted mode.
svars == <<segments, buffer_size, pc, seg_idx, prime_i, next_to_process,
           futures, submitLog, future_to_index, processed_segments, elapsed,
           executor_shutdown, events, files, sinkLog>>

pvars == <<text, parsed, gpc, gen_i, narration_count, segment_info, info_file,
           disk, loaded, play_i, played>>

vars == <<svars, pvars>>

\* ------------------------------------------------------------ sessions
Narration == [type |-> "narration", content |-> 0]
Hold(s) == [type |-> "hold", content |-> s]

\* The session of the end-to-end example: narrate, hold 5 s, narrate.
EndToEndSession == <<Narration, Hold(5), Narration>>

\* parse_session returns narrations and holds in text order.  A hold of 0
\* seconds is dropped by its final filter, so two narrations may be adjacent,
\* and so may two holds.
Sessions ==
    UNION {[1..n -> {Narration, Hold(1)}] : n \in 0..MaxSegs} \cup {EndToEndSession}

RECURSIVE NarrationsFrom(_, _)
NarrationsFrom(segs, i) ==
    IF i >= Len(segs) THEN <<>>
    ELSE (IF segs[i + 1].type = "narration" THEN <<i>> ELSE <<>>)
             \o NarrationsFrom(segs, i + 1)

\* narration_segments: the segment indices of the narrations, in order.
narration_segments == NarrationsFrom(segments, 0)

Min(a, b) == IF a < b THEN a ELSE b
SetMax(S) == CHOOSE x \in S : \A y \in S : y <= x
Range(s) == {s[k] : k \in 1..Len(s)}

\* ------------------------------------------------ expressions of the code
\* Faulty variant: the slice taken by overall segment position (segments[:buffer_size]).
PrimeSlice_ByPosition(ns, b) == SelectSeq(ns, LAMBDA i : i < b)

\* narration_segments[:buffer_size], for buffer_size >= 0.
PrimeSlice(ns, b) == SubSeq(ns, 1, Min(b, Len(ns)))

\* Faulty variant: next_to_process = 0, so the primed narrations are submitted again.
InitialNextToProcess_Zero(b) == 0

\* Faulty variant: next_to_process = buffer_size + 1, so one narration is passed over.
InitialNextToProcess_OffByOne(b) == b + 1

\* next_to_process = buffer_size
InitialNextToProcess(b) == b

\* Faulty variant: next_to_process < len(narration_segments) - 1.
CanSubmitNext_OffByOne(ntp, n) == ntp < n - 1

\* next_to_process < len(narration_segments)
CanSubmitNext(ntp, n) == ntp < n

\* Faulty variant: a call that has been started counts as done.
IsDone_Started(st) == st # "queued"

\* future.done()
IsDone(st) == st \in {"ok", "failed"}

\* Faulty variant: the result is not tied to the future it came from.
HarvestResult_First(f, st) == IF st = "ok" THEN 1 ELSE 0

\* try: processed_segments[i] = future.result()  except: ... = None
HarvestResult(f, st) == IF st = "ok" THEN f ELSE 0

\* Faulty variant: the None check is missing.
ShouldPlay_Always(audio_file) == TRUE

\* if audio_file:
ShouldPlay(audio_file) == audio_file # 0

\* Faulty variant: the hold is counted in polls, not in seconds.
HoldContinues_Ticks(el, content) == el < content

\* while time.time() - hold_start < content
HoldContinues(el, content) == el < content * TicksPerSecond

\* Faulty variant: the loop steps over a segment.
NextSegIdx_Skip(i) == i + 2

\* the for loop's step
NextSegIdx(i) == i + 1

\* --------------------------------------------------------------- Init
\* run_yoga_session does not touch the persisted mode's state.
PersistIdle ==
    /\ text = <<>>
    /\ parsed = <<>>
    /\ gpc = "idle"
    /\ gen_i = 0
    /\ narration_count = 0
    /\ segment_info = <<>>
    /\ info_file = <<>>
    /\ disk = {}
    /\ loaded = <<>>
    /\ play_i = 0
    /\ played = <<>>

\* run_yoga_session up to the priming loop.
SessionStart ==
    /\ pc = "prime"
    /\ seg_idx = 0
    /\ prime_i = 0
    /\ next_to_process = 0
    /\ futures = <<>>
    /\ submitLog = <<>>
    /\ future_to_index = <<>>
    /\ processed_segments = <<>>
    /\ elapsed = 0
    /\ executor_shutdown = FALSE
    /\ events = <<>>
    /\ files = {}
    /\ sinkLog = <<>>
    /\ PersistIdle

Init ==
    /\ segments \in Sessions
    /\ buffer_size \in 0..MaxBuffer
    /\ SessionStart

Event(k, i) == [kind |-> k, idx |-> i]

\* What play_audio_file did with a file while the loop was at segment i.
SinkOp(o, file, i) == [op |-> o, file |-> file, idx |-> i]

\* ----------------------------------------------------------- priming
\* One iteration of the priming loop: executor.submit, future_to_index[future].
Prime ==
    /\ pc = "prime"
    /\ prime_i < Len(PrimeSlice(narration_segments, buffer_size))
    /\ futures' = Append(futures, "queued")
    /\ submitLog' = Append(submitLog, PrimeSlice(narration_segments, buffer_size)[prime_i + 1])
    /\ future_to_index' = future_to_index @@
           ((Len(futures) + 1) :> PrimeSlice(narration_segments, buffer_size)[prime_i + 1])
    /\ prime_i' = prime_i + 1
    /\ UNCHANGED <<segments, buffer_size, pc, seg_idx, next_to_process,
                   processed_segments, elapsed, executor_shutdown, events, files, sinkLog, pvars>>

PrimeDone ==
    /\ pc = "prime"
    /\ prime_i >= Len(PrimeSlice(narration_segments, buffer_size))
    /\ processed_segments' = <<>>
    /\ next_to_process' = InitialNextToProcess(buffer_size)
    /\ pc' = "for"
    /\ UNCHANGED <<segments, buffer_size, seg_idx, prime_i, futures, submitLog,
                   future_to_index, elapsed, executor_shutdown, events, files, sinkLog, pvars>>

\* ------------------------------------------- harvest and submit-next
Harvested == {f \in DOMAIN future_to_index : IsDone(futures[f])}

\* The maintenance both wait loops perform: pop every done future and record
\* its result (a later future for the same index overwrites an earlier one),
\* then submit the next unsubmitted narration, if any.
Maintain ==
    LET left == [f \in (DOMAIN future_to_index) \ Harvested |-> future_to_index[f]]
        got == {future_to_index[f] : f \in Harvested}
        last(i) == SetMax({f \in Harvested : future_to_index[f] = i})
    IN  /\ processed_segments' =
               [i \in (DOMAIN processed_segments) \cup got |->
                    IF i \in got THEN HarvestResult(last(i), futures[last(i)])
                    ELSE processed_segments[i]]
        /\ IF CanSubmitNext(next_to_process, Len(narration_segments))
           THEN /\ futures' = Append(futures, "queued")
                /\ submitLog' = Append(submitLog, narration_segments[next_to_process + 1])
                /\ future_to_index' = left @@
                       ((Len(futures) + 1) :> narration_segments[next_to_process + 1])
                /\ next_to_process' = next_to_process + 1
           ELSE /\ future_to_index' = left
                /\ UNCHANGED <<futures, submitLog, next_to_process>>

\* ---------------------------------------------------------- main loop
ForNext ==
    /\ pc = "for"
    /\ seg_idx < Len(segments)
    /\ IF segments[seg_idx + 1].type = "narration"
       THEN /\ pc' = "while_narr"
            /\ UNCHANGED <<elapsed, events>>
       ELSE /\ pc' = "while_hold"
            /\ elapsed' = 0
            /\ events' = Append(events, Event("hold_begin", seg_idx))
    /\ UNCHANGED <<segments, buffer_size, seg_idx, prime_i, next_to_process, futures,
                   submitLog, future_to_index, processed_segments,
                   executor_shutdown, files, sinkLog, pvars>>

ForEnd ==
    /\ pc = "for"
    /\ seg_idx >= Len(segments)
    /\ pc' = "shutdown"
    /\ UNCHANGED <<segments, buffer_size, seg_idx, prime_i, next_to_process, futures,
                   submitLog, future_to_index, processed_segments, elapsed,
                   executor_shutdown, events, files, sinkLog, pvars>>

\* One iteration of `while seg_idx not in processed_segments`, up to the sleep.
NarrIter ==
    /\ pc = "while_narr"
    /\ seg_idx \notin DOMAIN processed_segments
    /\ Maintain
    /\ pc' = IF seg_idx \notin DOMAIN processed_segments' THEN "sleep_n" ELSE "while_narr"
    /\ UNCHANGED <<segments, buffer_size, seg_idx, prime_i, elapsed,
                   executor_shutdown, events, files, sinkLog, pvars>>

NarrSleep ==
    /\ pc = "sleep_n"
    /\ pc' = "while_narr"
    /\ UNCHANGED <<segments, buffer_size, seg_idx, prime_i, next_to_process, futures,
                   submitLog, future_to_index, processed_segments, elapsed,
                   executor_shutdown, events, files, sinkLog, pvars>>

NarrReady ==
    /\ pc = "while_narr"
    /\ seg_idx \in DOMAIN processed_segments
    /\ pc' = "play"
    /\ UNCHANGED <<segments, buffer_size, seg_idx, prime_i, next_to_process, futures,
                   submitLog, future_to_index, processed_segments, elapsed,
                   executor_shutdown, events, files, sinkLog, pvars>>

\* Faulty variant: the result is read but not popped.
Popped_Kept == processed_segments

\* processed_segments.pop(seg_idx)
Popped == [i \in (DOMAIN processed_segments) \ {seg_idx} |-> processed_segments[i]]

\* audio_file is None: nothing is played.
PlaySkip ==
    /\ pc = "play"
    /\ ~ShouldPlay(processed_segments[seg_idx])
    /\ processed_segments' = Popped
    /\ events' = Append(events, Event("skip", seg_idx))
    /\ seg_idx' = NextSegIdx(seg_idx)
    /\ pc' = "for"
    /\ UNCHANGED <<segments, buffer_size, prime_i, next_to_process, futures, submitLog,
                   future_to_index, elapsed, executor_shutdown, files, sinkLog, pvars>>

\* Faulty variant: play_audio_file is called with delete_after=False.
PlayOk_NoDelete ==
    /\ pc = "play"
    /\ ShouldPlay(processed_segments[seg_idx])
    /\ processed_segments' = Popped
    /\ events' = Append(events, Event("play", seg_idx))
    /\ sinkLog' = Append(sinkLog, SinkOp("play", processed_segments[seg_idx], seg_idx))
    /\ seg_idx' = NextSegIdx(seg_idx)
    /\ pc' = "for"
    /\ UNCHANGED <<segments, buffer_size, prime_i, next_to_process, futures, submitLog,
                   future_to_index, elapsed, executor_shutdown, files, pvars>>

\* play_audio_file(audio_file, delete_after=True): ffplay succeeds, os.remove.
PlayOk ==
    /\ pc = "play"
    /\ ShouldPlay(processed_segments[seg_idx])
    /\ processed_segments' = Popped
    /\ events' = Append(events, Event("play", seg_idx))
    /\ files' = files \ {processed_segments[seg_idx]}
    /\ sinkLog' = sinkLog \o <<SinkOp("play", processed_segments[seg_idx], seg_idx),
                               SinkOp("remove", processed_segments[seg_idx], seg_idx)>>
    /\ seg_idx' = NextSegIdx(seg_idx)
    /\ pc' = "for"
    /\ UNCHANGED <<segments, buffer_size, prime_i, next_to_process, futures, submitLog,
                   future_to_index, elapsed, executor_shutdown, pvars>>

\* Faulty variant: the playback error is caught and the loop goes on.
PlayFail_Swallowed ==
    /\ pc = "play"
    /\ ShouldPlay(processed_segments[seg_idx])
    /\ processed_segments' = Popped
    /\ events' = Append(events, Event("play_failed", seg_idx))
    /\ sinkLog' = Append(sinkLog, SinkOp("play", processed_segments[seg_idx], seg_idx))
    /\ seg_idx' = NextSegIdx(seg_idx)
    /\ pc' = "for"
    /\ UNCHANGED <<segments, buffer_size, prime_i, next_to_process, futures, submitLog,
                   future_to_index, elapsed, executor_shutdown, files, pvars>>

\* subprocess.run(..., check=True) raises: the exception leaves
\* run_yoga_session, which has no try/finally around the loop.
PlayFail ==
    /\ pc = "play"
    /\ ShouldPlay(processed_segments[seg_idx])
    /\ processed_segments' = Popped
    /\ events' = Append(events, Event("play_failed", seg_idx))
    /\ sinkLog' = Append(sinkLog, SinkOp("play", processed_segments[seg_idx], seg_idx))
    /\ pc' = "aborted"
    /\ UNCHANGED <<segments, buffer_size, seg_idx, prime_i, next_to_process, futures,
                   submitLog, future_to_index, elapsed, executor_shutdown, files, pvars>>

\* One iteration of the hold loop, up to the sleep.
HoldIter ==
    /\ pc = "while_hold"
    /\ HoldContinues(elapsed, segments[seg_idx + 1].content)
    /\ Maintain
    /\ pc' = "sleep_h"
    /\ UNCHANGED <<segments, buffer_size, seg_idx, prime_i, elapsed,
                   executor_shutdown, events, files, sinkLog, pvars>>

\* time.sleep(0.1) sleeps at least one tick.
HoldSleep ==
    /\ pc = "sleep_h"
    /\ \E d \in 1..MaxSleepTicks : elapsed' = elapsed + d
    /\ pc' = "while_hold"
    /\ UNCHANGED <<segments, buffer_size, seg_idx, prime_i, next_to_process, futures,
                   submitLog, future_to_index, processed_segments,
                   executor_shutdown, events, files, sinkLog, pvars>>

HoldEnd ==
    /\ pc = "while_hold"
    /\ ~HoldContinues(elapsed, segments[seg_idx + 1].content)
    /\ events' = Append(events, Event("hold_end", seg_idx))
    /\ seg_idx' = NextSegIdx(seg_idx)
    /\ pc' = "for"
    /\ UNCHANGED <<segments, buffer_size, prime_i, next_to_process, futures, submitLog,
                   future_to_index, processed_segments, elapsed,
                   executor_shutdown, files, sinkLog, pvars>>

\* executor.shutdown(wait=True) returns once every submitted call has ended.
ExecutorShutdown ==
    /\ pc = "shutdown"
    /\ \A f \in 1..Len(futures) : IsDone(futures[f])
    /\ executor_shutdown' = TRUE
    /\ pc' = "done"
    /\ UNCHANGED <<segments, buffer_size, seg_idx, prime_i, next_to_process, futures,
                   submitLog, future_to_index, processed_segments, elapsed,
                   events, files, sinkLog, pvars>>

Coordinator ==
    \/ Prime \/ PrimeDone \/ ForNext \/ ForEnd
    \/ NarrIter \/ NarrSleep \/ NarrReady
    \/ PlaySkip \/ PlayOk \/ PlayFail
    \/ HoldIter \/ HoldSleep \/ HoldEnd
    \/ ExecutorShutdown

\* -------------------------------------------------------- worker pool
Busy == {f \in 1..Len(futures) : futures[f] \in {"running", "hung"}}

\* A free worker thread takes the oldest queued call.
WorkerStart ==
    /\ Cardinality(Busy) < max_workers
    /\ \E f \in 1..Len(futures) :
        /\ futures[f] = "queued"
        /\ \A g \in 1..(f - 1) : futures[g] # "queued"
        /\ futures' = [futures EXCEPT ![f] = "running"]
    /\ UNCHANGED <<segments, buffer_size, pc, seg_idx, prime_i, next_to_process,
                   submitLog, future_to_index, processed_segments, elapsed,
                   executor_shutdown, events, files, sinkLog, pvars>>

\* gemini_tts returns the path of the temp file it wrote.
WorkerFinish(f) ==
    /\ f \in 1..Len(futures)
    /\ futures[f] = "running"
    /\ futures' = [futures EXCEPT ![f] = "ok"]
    /\ files' = files \cup {f}
    /\ UNCHANGED <<segments, buffer_size, pc, seg_idx, prime_i, next_to_process,
                   submitLog, future_to_index, processed_segments, elapsed,
                   executor_shutdown, events, sinkLog, pvars>>

\* The backend call raises.
WorkerFail(f) ==
    /\ f \in 1..Len(futures)
    /\ futures[f] = "running"
    /\ futures' = [futures EXCEPT ![f] = "failed"]
    /\ UNCHANGED <<segments, buffer_size, pc, seg_idx, prime_i, next_to_process,
                   submitLog, future_to_index, processed_segments, elapsed,
                   executor_shutdown, events, files, sinkLog, pvars>>

\* The call raises after gemini_tts has created its temp file
\* (NamedTemporaryFile(delete=False)): writing the wave data fails, and nothing
\* removes the file.
WorkerFailLate(f) ==
    /\ f \in 1..Len(futures)
    /\ futures[f] = "running"
    /\ futures' = [futures EXCEPT ![f] = "failed"]
    /\ files' = files \cup {f}
    /\ UNCHANGED <<segments, buffer_size, pc, seg_idx, prime_i, next_to_process,
                   submitLog, future_to_index, processed_segments, elapsed,
                   executor_shutdown, events, sinkLog, pvars>>

\* The backend call never returns.
WorkerHang(f) ==
    /\ f \in 1..Len(futures)
    /\ futures[f] = "running"
    /\ futures' = [futures EXCEPT ![f] = "hung"]
    /\ UNCHANGED <<segments, buffer_size, pc, seg_idx, prime_i, next_to_process,
                   submitLog, future_to_index, processed_segments, elapsed,
                   executor_shutdown, events, files, sinkLog, pvars>>

WorkerEnd(f) == WorkerFinish(f) \/ WorkerFail(f) \/ WorkerFailLate(f) \/ WorkerHang(f)

\* One future per narration at most.
FutureIds == 1..(IF MaxSegs > MaxBackToBack THEN MaxSegs ELSE MaxBackToBack)

Next ==
    \/ Coordinator
    \/ WorkerStart
    \/ \E f \in FutureIds : WorkerEnd(f)

Spec == Init /\ [][Next]_vars

\* The coordinator thread and the worker threads keep being scheduled, and a
\* call that is running ends one way or another: it returns, raises or is
\* hung for good.
Fairness ==
    /\ WF_vars(Coordinator)
    /\ WF_vars(WorkerStart)
    /\ \A f \in FutureIds : WF_vars(WorkerEnd(f))

FairSpec == Init /\ [][Next]_vars /\ Fairness

\* ======================================================================
\* parse_session, generate_session_audio and play_session_audio.
\*
\* A string is a sequence of one-character strings and of literal pieces.
\* The session text is a sequence of tokens: a character (a word character,
\* a blank or a line break), or a hold marker candidate, which stands for
\* the text "<hold NUM UNIT>" ("<hold NUM>" when the unit is empty).
MaxTextLen == 3

DigitChars == <<"0", "1", "2", "3", "4", "5", "6", "7", "8", "9">>
IsDigit(c) == \E d \in 1..10 : DigitChars[d] = c
DigitVal(c) == (CHOOSE d \in 1..10 : DigitChars[d] = c) - 1

Ch(c) == [k |-> "char", num |-> <<>>, unit |-> c]
Marker(n, u) == [k |-> "marker", num |-> n, unit |-> u]

TokenAlphabet ==
    {Ch("w"), Ch(" "), Ch("\n"),
     Marker(<<"5">>, "seconds"), Marker(<<"1">>, "minute"),
     Marker(<<"2">>, "MINUTES"), Marker(<<"0">>, "second"),
     Marker(<<"3", "0">>, ""), Marker(<<"b">>, ""), Marker(<<"5">>, "hours")}

Texts == UNION {[1..n -> TokenAlphabet] : n \in 0..MaxTextLen}

\* str.lower() on the unit spellings of the alphabet.
Lower(u) ==
    CASE u = "MINUTES" -> "minutes"
      [] u = "Seconds" -> "seconds"
      [] OTHER -> u

\* HOLD_PATTERN: <hold (\d+) (second|minute|minutes|seconds)>, IGNORECASE.
PatternMatches(tok) ==
    /\ tok.k = "marker"
    /\ tok.num # <<>>
    /\ \A j \in 1..Len(tok.num) : IsDigit(tok.num[j])
    /\ Lower(tok.unit) \in {"second", "minute", "minutes", "seconds"}

\* int(match.group(1))
RECURSIVE IntOf(_)
IntOf(ds) ==
    IF ds = <<>> THEN 0
    ELSE 10 * IntOf(SubSeq(ds, 1, Len(ds) - 1)) + DigitVal(ds[Len(ds)])

\* Faulty variant: unit == 'minute'.
HasMinute_Exact(u) == u = "minute"

\* 'minute' in unit
HasMinute(u) == u \in {"minute", "minutes"}

\* seconds = duration * 60 if 'minute' in unit else duration
MarkerSeconds(tok) ==
    IF HasMinute(Lower(tok.unit)) THEN IntOf(tok.num) * 60 ELSE IntOf(tok.num)

IsSpace(tok) == tok.k = "char" /\ tok.unit \in {" ", "\n"}

\* str.strip()
RECURSIVE Strip(_)
Strip(t) ==
    IF t = <<>> THEN t
    ELSE IF IsSpace(t[1]) THEN Strip(Tail(t))
    ELSE IF IsSpace(t[Len(t)]) THEN Strip(SubSeq(t, 1, Len(t) - 1))
    ELSE t

\* ('narration', f"{STYLE}'{...strip()}'") and ('hold', seconds)
NarrationSeg(spoken) ==
    [type |-> "narration",
     text |-> <<Ch("STYLE"), Ch("'")>> \o spoken \o <<Ch("'")>>,
     seconds |-> 0]
HoldSeg(n) == [type |-> "hold", text |-> <<>>, seconds |-> n]

\* `if seg[1]`: a non-empty string, a non-zero number.
Truthy(seg) == IF seg.type = "narration" THEN seg.text # <<>> ELSE seg.seconds # 0

\* The finditer loop from token i on; positions are 0-based offsets.
RECURSIVE ParseLoop(_, _, _, _)
ParseLoop(t, i, pos, segs) ==
    IF i > Len(t) THEN [segs |-> segs, pos |-> pos]
    ELSE IF PatternMatches(t[i])
    THEN LET start == i - 1
             withText == IF start > pos
                         THEN Append(segs, NarrationSeg(Strip(SubSeq(t, pos + 1, start))))
                         ELSE segs
         IN  ParseLoop(t, i + 1, i, Append(withText, HoldSeg(MarkerSeconds(t[i]))))
    ELSE ParseLoop(t, i + 1, pos, segs)

parse_session(t) ==
    LET r == ParseLoop(t, 1, 0, <<>>)
        all == IF r.pos < Len(t)
               THEN Append(r.segs, NarrationSeg(Strip(SubSeq(t, r.pos + 1, Len(t)))))
               ELSE r.segs
    IN  SelectSeq(all, Truthy)

\* ------------------------------------------------ generate_session_audio
\* audio_dir = f"sessions/audio/{session_name}"
AudioDir == <<"sessions/audio/", "yin_1">>

\* str(n) of a non-negative int
RECURSIVE Str(_)
Str(n) == IF n < 10 THEN <<DigitChars[n + 1]>> ELSE Str(n \div 10) \o <<DigitChars[(n % 10) + 1]>>

\* f"{n:03d}"
Pad3(n) ==
    LET d == Str(n)
    IN  (IF Len(d) < 3 THEN [j \in 1..(3 - Len(d)) |-> "0"] ELSE <<>>) \o d

\* f"{audio_dir}/segment_{narration_count:03d}.wav"
FileName(n) == AudioDir \o <<"/segment_">> \o Pad3(n) \o <<".wav">>

\* f"narration:{content}\n" and f"hold:{content}\n"
InfoLine(entry) ==
    IF entry.type = "narration"
    THEN <<"narration:">> \o entry.text \o <<"\n">>
    ELSE <<"hold:">> \o Str(entry.seconds) \o <<"\n">>

\* Everything run_yoga_session owns stays as it is when it is not run.
SessionIdle ==
    /\ segments = <<>>
    /\ buffer_size = 0
    /\ pc = "idle"
    /\ seg_idx = 0
    /\ prime_i = 0
    /\ next_to_process = 0
    /\ futures = <<>>
    /\ submitLog = <<>>
    /\ future_to_index = <<>>
    /\ processed_segments = <<>>
    /\ elapsed = 0
    /\ executor_shutdown = FALSE
    /\ events = <<>>
    /\ files = {}
    /\ sinkLog = <<>>

PersistInit ==
    /\ SessionIdle
    /\ text \in Texts
    /\ parsed = <<>>
    /\ gpc = "start"
    /\ gen_i = 0
    /\ narration_count = 0
    /\ segment_info = <<>>
    /\ info_file = <<>>
    /\ disk = {}
    /\ loaded = <<>>
    /\ play_i = 0
    /\ played = <<>>

\* segments = parse_session(session_text); narration_count = 0; segment_info = []
GenParse ==
    /\ gpc = "start"
    /\ parsed' = parse_session(text)
    /\ gen_i' = 0
    /\ narration_count' = 0
    /\ segment_info' = <<>>
    /\ gpc' = "gen_loop"
    /\ UNCHANGED <<svars, text, info_file, disk, loaded, play_i, played>>

\* A narration: the audio is synthesised into its file.
GenNarration ==
    /\ gpc = "gen_loop"
    /\ gen_i < Len(parsed)
    /\ parsed[gen_i + 1].type = "narration"
    /\ disk' = disk \cup {FileName(narration_count)}
    /\ segment_info' = Append(segment_info,
           [type |-> "narration", text |-> FileName(narration_count), seconds |-> 0])
    /\ narration_count' = narration_count + 1
    /\ gen_i' = gen_i + 1
    /\ UNCHANGED <<svars, text, parsed, gpc, info_file, loaded, play_i, played>>

\* process_narration_segment raises: generate_session_audio is left at once.
GenNarrationFail ==
    /\ gpc = "gen_loop"
    /\ gen_i < Len(parsed)
    /\ parsed[gen_i + 1].type = "narration"
    /\ gpc' = "gen_failed"
    /\ UNCHANGED <<svars, text, parsed, gen_i, narration_count, segment_info,
                   info_file, disk, loaded, play_i, played>>

GenHold ==
    /\ gpc = "gen_loop"
    /\ gen_i < Len(parsed)
    /\ parsed[gen_i + 1].type = "hold"
    /\ segment_info' = Append(segment_info, HoldSeg(parsed[gen_i + 1].seconds))
    /\ gen_i' = gen_i + 1
    /\ UNCHANGED <<svars, text, parsed, gpc, narration_count, info_file, disk,
                   loaded, play_i, played>>

\* segments.txt is written, one line per entry of segment_info.
GenWrite ==
    /\ gpc = "gen_loop"
    /\ gen_i >= Len(parsed)
    /\ info_file' = [j \in 1..Len(segment_info) |-> InfoLine(segment_info[j])]
    /\ gpc' = "generated"
    /\ UNCHANGED <<svars, text, parsed, gen_i, narration_count, segment_info, disk,
                   loaded, play_i, played>>

\* --------------------------------------------------- play_session_audio
IsBlank(c) == c \in {" ", "\n"}

\* line.strip()
RECURSIVE StripLine(_)
StripLine(l) ==
    IF l = <<>> THEN l
    ELSE IF IsBlank(l[1]) THEN StripLine(Tail(l))
    ELSE IF IsBlank(l[Len(l)]) THEN StripLine(SubSeq(l, 1, Len(l) - 1))
    ELSE l

\* One line of segments.txt: the segment it yields, if any, as a sequence of
\* zero or one segment.  float(line[5:]) of a decimal integer is that integer.
ReadLine(raw) ==
    LET line == StripLine(raw)
    IN  IF line # <<>> /\ line[1] = "narration:"
        THEN <<[type |-> "narration", text |-> Tail(line), seconds |-> 0]>>
        ELSE IF line # <<>> /\ line[1] = "hold:"
        THEN <<HoldSeg(IntOf(Tail(line)))>>
        ELSE <<>>

RECURSIVE ReadLines(_)
ReadLines(ls) == IF ls = <<>> THEN <<>> ELSE ReadLine(ls[1]) \o ReadLines(Tail(ls))

PlayLoad ==
    /\ gpc = "generated"
    /\ loaded' = ReadLines(info_file)
    /\ play_i' = 0
    /\ gpc' = "play_loop"
    /\ UNCHANGED <<svars, text, parsed, gen_i, narration_count, segment_info,
                   info_file, disk, played>>

\* Faulty variant: play_audio_file(content) with the default delete_after=True.
PlayPersisted_Deleting ==
    /\ gpc = "play_loop"
    /\ play_i < Len(loaded)
    /\ loaded[play_i + 1].type = "narration"
    /\ played' = Append(played, loaded[play_i + 1])
    /\ disk' = disk \ {loaded[play_i + 1].text}
    /\ play_i' = play_i + 1
    /\ UNCHANGED <<svars, text, parsed, gpc, gen_i, narration_count, segment_info,
                   info_file, loaded>>

\* play_audio_file(content, delete_after=False)
PlayPersisted ==
    /\ gpc = "play_loop"
    /\ play_i < Len(loaded)
    /\ loaded[play_i + 1].type = "narration"
    /\ played' = Append(played, loaded[play_i + 1])
    /\ play_i' = play_i + 1
    /\ UNCHANGED <<svars, text, parsed, gpc, gen_i, narration_count, segment_info,
                   info_file, disk, loaded>>

\* ffplay fails: play_session_audio is left at once.
PlayPersistedFail ==
    /\ gpc = "play_loop"
    /\ play_i < Len(loaded)
    /\ loaded[play_i + 1].type = "narration"
    /\ gpc' = "play_failed"
    /\ UNCHANGED <<svars, text, parsed, gen_i, narration_count, segment_info,
                   info_file, disk, loaded, play_i, played>>

\* time.sleep(content)
PlayPersistedHold ==
    /\ gpc = "play_loop"
    /\ play_i < Len(loaded)
    /\ loaded[play_i + 1].type = "hold"
    /\ played' = Append(played, loaded[play_i + 1])
    /\ play_i' = play_i + 1
    /\ UNCHANGED <<svars, text, parsed, gpc, gen_i, narration_count, segment_info,
                   info_file, disk, loaded>>

PlayPersistedEnd ==
    /\ gpc = "play_loop"
    /\ play_i >= Len(loaded)
    /\ gpc' = "played"
    /\ UNCHANGED <<svars, text, parsed, gen_i, narration_count, segment_info,
                   info_file, disk, loaded, play_i, played>>

PersistNext ==
    \/ GenParse \/ GenNarration \/ GenNarrationFail \/ GenHold \/ GenWrite
    \/ PlayLoad \/ PlayPersisted \/ PlayPersistedFail \/ PlayPersistedHold
    \/ PlayPersistedEnd

PersistSpec == PersistInit /\ [][PersistNext]_vars

\* ---------------------------------------------- back-to-back sessions
\* Sessions in which narrations follow one another (the markers between
\* them have duration 0), with at most one hold left, run with a look-ahead
\* of 1..MaxAhead.
BackToBackSessions ==
    {s \in UNION {[1..n -> {Narration, Hold(1)}] : n \in 0..MaxBackToBack} :
        Cardinality({k \in 1..Len(s) : s[k].type = "hold"}) <= 1}

BackToBackInit ==
    /\ segments \in BackToBackSessions
    /\ buffer_size \in 1..MaxAhead
    /\ SessionStart

BackToBackSpec == BackToBackInit /\ [][Next]_vars

\* ------------------------------------------------------------ timeline
\* The events that begin a segment's turn, and those that complete it.
Begins(e) == e.kind \in {"play", "skip", "play_failed", "hold_begin"}
Completes(e) == e.kind \in {"play", "skip", "hold_end"}
Begun == SelectSeq(events, Begins)
Completed == SelectSeq(events, Completes)

KindFits(e) ==
    /\ e.idx \in 0..(Len(segments) - 1)
    /\ IF segments[e.idx + 1].type = "narration"
       THEN e.kind \in {"play", "skip", "play_failed"}
       ELSE e.kind \in {"hold_begin", "hold_end"}

NarrationCount == Len(narration_segments)
SynthFailed(i) == \E f \in 1..Len(futures) : submitLog[f] = i /\ futures[f] = "failed"
IsHung(i) == \E f \in 1..Len(futures) : submitLog[f] = i /\ futures[f] = "hung"
Outstanding == Cardinality(DOMAIN future_to_index)
CompletedUnplayed == Cardinality(DOMAIN processed_segments)

\* ---------------------------------------------------------------- C1
\* C1: the playback events are exactly the segments in index order: the k-th
\* segment to begin its turn is segment k - 1, each event is of its segment's
\* kind, and a segment begins only when every earlier one has completed.
C1_PlaybackInOrder ==
    /\ \A k \in 1..Len(events) : KindFits(events[k])
    /\ \A k \in 1..Len(Begun) : Begun[k].idx = k - 1
    /\ \A k \in 1..Len(Completed) : Completed[k].idx = k - 1
    /\ Len(Completed) \in {Len(Begun), Len(Begun) - 1}
    /\ \A k \in 1..Len(events) :
        Begins(events[k]) =>
            Len(SelectSeq(SubSeq(events, 1, k - 1), Completes)) = events[k].idx

\* A later narration's result is buffered while an earlier one is still being
\* synthesised, and playback has gone on in order meanwhile.
C1_Witness ==
    /\ Len(events) >= 1
    /\ events[Len(events)].kind = "play"
    /\ \E f, g \in 1..Len(futures) :
        /\ f < g
        /\ events[Len(events)].idx < submitLog[f]
        /\ ~IsDone(futures[f])
        /\ submitLog[g] \in DOMAIN processed_segments

\* ---------------------------------------------------------------- C2
\* C2: while the coordinator sleeps in a narration wait or a hold wait, the
\* outstanding plus the completed-but-unplayed synthesis tasks number at most
\* buffer_size (taken for buffer_size >= 1, where the window is not empty).
C2_WindowBounded ==
    (buffer_size >= 1 /\ pc \in {"sleep_n", "sleep_h"}) =>
        Outstanding + CompletedUnplayed <= buffer_size

\* ---------------------------------------------------------------- C3
\* C3: no narration is submitted twice, and when the run is done every
\* narration has been submitted, and its backend call made, exactly once.
C3_SubmittedOnce ==
    /\ \A k, l \in 1..Len(submitLog) : k # l => submitLog[k] # submitLog[l]
    /\ pc = "done" =>
        /\ Len(submitLog) = NarrationCount
        /\ Range(submitLog) = Range(narration_segments)
        /\ \A f \in 1..Len(futures) : futures[f] \in {"ok", "failed"}

C3_Witness ==
    /\ pc = "done"
    /\ buffer_size >= 1
    /\ NarrationCount > buffer_size + 1

\* ---------------------------------------------------------------- C4
\* C4: the sink is never called for a narration whose synthesis failed, only
\* a playback failure aborts the run, and a run that is done has gone through
\* every segment in order, skipping exactly the narrations that failed.
C4_SynthesisFailureIsolated ==
    /\ \A k \in 1..Len(events) :
        events[k].kind \in {"play", "play_failed"} => ~SynthFailed(events[k].idx)
    /\ pc = "aborted" => events[Len(events)].kind = "play_failed"
    /\ pc = "done" =>
        /\ Len(Completed) = Len(segments)
        /\ \A k \in 1..Len(Completed) :
            /\ Completed[k].idx = k - 1
            /\ (Completed[k].kind = "skip") = SynthFailed(k - 1)

C4_Witness ==
    /\ pc = "done"
    /\ \E k, l \in 1..Len(events) :
        /\ k < l
        /\ events[k].kind = "skip"
        /\ events[l].kind = "play"

\* ---------------------------------------------------------------- C5
\* C5: a playback failure halts the run at once, and from then on the
\* coordinator plays or holds nothing, submits nothing, harvests nothing and
\* does not wait for the worker pool, whatever the workers still do.
C5_HaltOnPlaybackFailure ==
    [][/\ (Len(events') >= 1 /\ events'[Len(events')].kind = "play_failed")
            => pc' = "aborted"
       /\ pc = "aborted" =>
            /\ pc' = "aborted"
            /\ UNCHANGED <<events, submitLog, seg_idx, next_to_process,
                           future_to_index, processed_segments, executor_shutdown>>
            /\ ~executor_shutdown]_vars

\* The run has been aborted with segments left over, and a call submitted
\* earlier has since finished without ever being harvested.
C5_Witness ==
    /\ pc = "aborted"
    /\ seg_idx + 1 < Len(segments)
    /\ \E f \in DOMAIN future_to_index : futures[f] = "ok"
    /\ \E f \in DOMAIN future_to_index : futures[f] = "running"

\* ---------------------------------------------------------------- C6
\* C6: when a playback error has ended the run, the executor has been shut
\* down.
C6_TeardownAfterPlaybackError == pc = "aborted" => executor_shutdown

\* ---------------------------------------------------------------- C7
\* C7: before the first playback or hold event the first
\* min(buffer_size, number of narrations) narrations have been submitted; and
\* for [Narration, Hold(5), Narration] with buffer_size = 2 both narrations are
\* submitted before the first event, there are never more than 2 backend
\* calls, and the run's events are narrate(0), hold(5 s), narrate(2).
Primed == Min(buffer_size, NarrationCount)

C7_PrimedBeforePlayback ==
    /\ events # <<>> =>
        /\ Len(submitLog) >= Primed
        /\ \A k \in 1..Primed : submitLog[k] = narration_segments[k]
    /\ (segments = EndToEndSession /\ buffer_size = 2) =>
        /\ Len(futures) <= 2
        /\ events # <<>> => submitLog = <<0, 2>>
        /\ (Len(events) >= 1 /\ events[Len(events)].kind = "hold_end")
                => elapsed >= 5 * TicksPerSecond
        /\ pc = "done" =>
            /\ Len(futures) = 2
            /\ [k \in 1..Len(events) |-> events[k].idx] = <<0, 1, 1, 2>>
            /\ events[1].kind \in {"play", "skip"}
            /\ events[2].kind = "hold_begin"
            /\ events[3].kind = "hold_end"
            /\ events[4].kind \in {"play", "skip"}

C7_Witness ==
    /\ segments = EndToEndSession
    /\ buffer_size = 2
    /\ pc = "done"
    /\ events[1].kind = "play"
    /\ events[4].kind = "play"

\* ---------------------------------------------------------------- C8
\* C8: the k-th synthesis request is for the k-th narration: requests are
\* made in increasing index order and none is passed over.
C8_SubmissionFIFO ==
    /\ Len(submitLog) <= NarrationCount
    /\ \A k \in 1..Len(submitLog) : submitLog[k] = narration_segments[k]

\* Requests made by priming and by both wait loops.
C8_Witness ==
    /\ buffer_size = 1
    /\ Len(submitLog) >= 3
    /\ \E k \in 1..Len(events) : events[k].kind = "hold_end"

\* ---------------------------------------------------------------- C9
\* C9: unless a playback fails or a synthesis call hangs, the run reaches
\* its end; at the end every segment has had its turn exactly once, in
\* order; the executor is shut down only then, and nothing is played, held
\* or submitted afterwards.
HungExists == \E f \in 1..Len(futures) : futures[f] = "hung"

C9_RunsToCompletion ==
    /\ [](pc = "done" =>
            /\ executor_shutdown
            /\ seg_idx = Len(segments)
            /\ Len(Begun) = Len(segments)
            /\ Len(Completed) = Len(segments)
            /\ \A k \in 1..Len(segments) : Begun[k].idx = k - 1 /\ Completed[k].idx = k - 1)
    /\ [](executor_shutdown => (pc = "done" /\ Len(Completed) = Len(segments)))
    /\ [][pc = "done" => UNCHANGED <<pc, events, submitLog, seg_idx>>]_vars
    /\ <>(pc = "done" \/ pc = "aborted" \/ HungExists)

C9_Witness ==
    /\ pc = "done"
    /\ buffer_size = 0
    /\ NarrationCount >= 2
    /\ \E k \in 1..Len(events) : events[k].kind = "skip"
    /\ \E k \in 1..Len(events) : events[k].kind = "play"

\* --------------------------------------------------------------- C10
\* C10: a narration whose synthesis call hangs is never played or skipped
\* and no later segment gets its turn; the coordinator goes through the
\* segments before it (unless a playback fails) and then waits on it for good.
WaitingOnHung == pc \in {"while_narr", "sleep_n"} /\ IsHung(seg_idx)

C10_HungCallBlocksForever ==
    /\ [](\A i \in 0..(Len(segments) - 1) :
            IsHung(i) =>
                /\ seg_idx <= i
                /\ \A k \in 1..Len(events) : events[k].idx < i)
    /\ [][WaitingOnHung => (WaitingOnHung' /\ UNCHANGED <<events, seg_idx>>)]_vars
    /\ HungExists ~> (pc = "aborted" \/ WaitingOnHung)

\* The coordinator is stuck on a hung narration after earlier segments had
\* their turn, although a later narration's audio is already there.
C10_Witness ==
    /\ WaitingOnHung
    /\ Len(Completed) >= 2
    /\ \E j \in DOMAIN processed_segments : j > seg_idx

\* --------------------------------------------------------------- C11
\* C11: a synthesised artifact is played at most once, and only when the
\* loop is at the segment it was synthesised for; it is removed right after
\* its playback has completed, never before it and never twice, and until
\* then its file exists.
Removed(f) == \E k \in 1..Len(sinkLog) : sinkLog[k].op = "remove" /\ sinkLog[k].file = f

C11_ArtifactConsumedOnce ==
    /\ \A k \in 1..Len(sinkLog) :
        LET e == sinkLog[k] IN
        /\ e.file \in 1..Len(futures)
        /\ futures[e.file] = "ok"
        /\ submitLog[e.file] = e.idx
        /\ \A l \in 1..Len(sinkLog) :
            (l # k /\ sinkLog[l].op = e.op) => sinkLog[l].file # e.file
        /\ e.op = "remove" =>
            /\ k > 1
            /\ sinkLog[k - 1] = SinkOp("play", e.file, e.idx)
        /\ e.op = "play" =>
            \/ k < Len(sinkLog) /\ sinkLog[k + 1] = SinkOp("remove", e.file, e.idx)
            \/ k = Len(sinkLog) /\ pc = "aborted"
    /\ \A f \in 1..Len(futures) :
        futures[f] = "ok" => (f \in files <=> ~Removed(f))

\* Two artifacts have been played and removed while a third waits its turn.
C11_Witness ==
    /\ Len(sinkLog) >= 4
    /\ \E f \in files : futures[f] = "ok" /\ f \notin DOMAIN future_to_index


\* ------------------------------------------------------------------ C12
PersistPlaying == gpc \in {"play_loop", "played", "play_failed"}

NarrationsBefore(segs, k) ==
    Cardinality({j \in 1..(k - 1) : segs[j].type = "narration"})

\* segment_NNN.wav of the r-th narration (r from 0, r < 10) in the audio
\* directory of the session.
ExpectedName(r) ==
    <<"sessions/audio/", "yin_1", "/segment_", "0", "0", DigitChars[r + 1], ".wav">>

RoundTrip(k) ==
    /\ loaded[k].type = parsed[k].type
    /\ loaded[k].type = "hold" => loaded[k].seconds = parsed[k].seconds
    /\ loaded[k].type = "narration" =>
        /\ loaded[k].text = ExpectedName(NarrationsBefore(parsed, k))
        /\ loaded[k].text \in disk

\* C12: in persisted mode the list read back from segments.txt has the
\* length, kinds and order of parse_session's output, every narration is
\* mapped to segment_NNN.wav numbered in narration order, every hold keeps
\* its duration, the segments are played in that order, and playback
\* deletes no persisted audio file.
C12_PersistedRoundTrip ==
    PersistPlaying =>
        /\ Len(loaded) = Len(parsed)
        /\ \A k \in 1..Len(loaded) : RoundTrip(k)
        /\ play_i <= Len(loaded)
        /\ played = SubSeq(loaded, 1, play_i)
        /\ gpc = "played" => play_i = Len(loaded)

C12_Witness ==
    /\ gpc = "played"
    /\ Len(played) = 3
    /\ played[1].type = "narration"
    /\ played[2].type = "hold" /\ played[2].seconds = 120
    /\ played[3].type = "narration" /\ played[3].text \in disk

\* ------------------------------------------------------------------ C13
AllDigits(ds) == ds # <<>> /\ \A j \in 1..Len(ds) : IsDigit(ds[j])

MarkersOf(t) == SelectSeq(t, LAMBDA tok : tok.k = "marker")

IsHoldSeg(seg) == seg.type = "hold"

HoldsOf(segs) ==
    LET hs == SelectSeq(segs, IsHoldSeg)
    IN  [j \in 1..Len(hs) |-> hs[j].seconds]

NonZero(ns) == SelectSeq(ns, LAMBDA n : n # 0)

SecondsUnits == {"second", "seconds", "Seconds", "SECONDS"}
MinutesUnits == {"minute", "minutes", "Minutes", "MINUTES"}

\* The duration the statement as written gives a marker: a unit-less number
\* is seconds, anything unparseable is 0.
StatedSeconds(tok) ==
    IF ~AllDigits(tok.num) THEN 0
    ELSE IF tok.unit \in MinutesUnits THEN 60 * IntOf(tok.num)
    ELSE IF tok.unit \in SecondsUnits \/ tok.unit = "" THEN IntOf(tok.num)
    ELSE 0

Recognised(tok) ==
    /\ tok.k = "marker"
    /\ AllDigits(tok.num)
    /\ tok.unit \in SecondsUnits \cup MinutesUnits

RecognisedSeconds(tok) ==
    IF ~Recognised(tok) THEN 0
    ELSE IF tok.unit \in MinutesUnits THEN 60 * IntOf(tok.num)
    ELSE IntOf(tok.num)

Spoken(seg) == SubSeq(seg.text, 3, Len(seg.text) - 1)

\* C19: every narration segment parse_session returns carries non-empty
\* spoken text.
C19_NoEmptyNarration ==
    gpc # "start" =>
        \A k \in 1..Len(parsed) :
            parsed[k].type = "narration" => Spoken(parsed[k]) # <<>>


\* ------------------------------------------------------------------ C14
AtHold == seg_idx < Len(segments) /\ segments[seg_idx + 1].type = "hold"

\* C14: a hold of d seconds is left (hold_end is recorded, the next segment
\* gets its turn) only when d seconds have elapsed since the hold began; and
\* every polling iteration of the hold removes each finished task from
\* future_to_index, records its index in processed_segments, and submits the
\* next unsubmitted narration if there is one.
C14_HoldNotCutShort ==
    [][/\ (AtHold /\ (seg_idx' # seg_idx \/ Len(events') > Len(events)) /\ pc # "for") =>
            /\ elapsed >= segments[seg_idx + 1].content * TicksPerSecond
            /\ events' = Append(events, Event("hold_end", seg_idx))
       /\ (AtHold /\ pc = "for" /\ pc' # pc) =>
            /\ elapsed' = 0
            /\ events' = Append(events, Event("hold_begin", seg_idx))
       /\ (pc = "while_hold" /\ pc' = "sleep_h") =>
            /\ \A f \in DOMAIN future_to_index :
                futures[f] \in {"ok", "failed"} =>
                    /\ f \notin DOMAIN future_to_index'
                    /\ future_to_index[f] \in DOMAIN processed_segments'
            /\ next_to_process < NarrationCount =>
                submitLog' = Append(submitLog, narration_segments[next_to_process + 1])
      ]_vars

\* The 5-second hold of the end-to-end session has ended, and the narration
\* after it was synthesised and recorded meanwhile.
C14_Witness ==
    /\ segments = EndToEndSession
    /\ Len(events) >= 1
    /\ events[Len(events)] = Event("hold_end", 1)
    /\ elapsed >= 5 * TicksPerSecond
    /\ 2 \in DOMAIN processed_segments
    /\ processed_segments[2] # 0

\* ------------------------------------------------------------------ C15
NarrationTurn(e) == e.kind \in {"play", "skip", "play_failed"}

\* The future whose result stands for index i: submitted for i, ended,
\* and harvested.
HarvestedFor(f, i) ==
    /\ f \in 1..Len(futures)
    /\ submitLog[f] = i
    /\ futures[f] \in {"ok", "failed"}
    /\ f \notin DOMAIN future_to_index

\* C15: a narration gets its turn only after a task submitted for its own
\* index has ended and been harvested, every result held in
\* processed_segments under index i comes from a task submitted for i, and
\* the file handed to playback at index i is the one that task wrote.
C15_OwnArtifactPlayed ==
    /\ \A k \in 1..Len(events) :
        NarrationTurn(events[k]) => \E f \in 1..Len(futures) : HarvestedFor(f, events[k].idx)
    /\ \A i \in DOMAIN processed_segments :
        IF processed_segments[i] = 0
        THEN \E f \in 1..Len(futures) : HarvestedFor(f, i) /\ futures[f] = "failed"
        ELSE HarvestedFor(processed_segments[i], i) /\ futures[processed_segments[i]] = "ok"
    /\ \A k \in 1..Len(sinkLog) :
        sinkLog[k].op = "play" =>
            /\ HarvestedFor(sinkLog[k].file, sinkLog[k].idx)
            /\ futures[sinkLog[k].file] = "ok"
            /\ \E j \in 1..Len(events) :
                events[j].idx = sinkLog[k].idx /\ events[j].kind \in {"play", "play_failed"}

\* Completion out of submission order: after a first narration was played, a
\* later task's result is held under its own index while a task submitted
\* before it has not ended.
C15_Witness ==
    /\ \E k \in 1..Len(sinkLog) : sinkLog[k].op = "play"
    /\ \E i \in DOMAIN processed_segments :
        /\ processed_segments[i] # 0
        /\ \E f \in 1..Len(futures) :
            f < processed_segments[i] /\ futures[f] \in {"queued", "running"}


\* ------------------------------------------------------------------ C16
\* The narration rank of the segment the loop is at.
RankHere == NarrationsBefore(segments, seg_idx + 1)

\* C16: when the coordinator begins playing (or skipping) the narration of
\* rank k, every narration of rank below min(k + buffer_size, number of
\* narrations) has been submitted, for every buffer_size >= 1.
C16_WindowKeptFull ==
    (pc = "play" /\ buffer_size >= 1) =>
        \A r \in 0..(Min(RankHere + buffer_size, NarrationCount) - 1) :
            \E f \in 1..Len(submitLog) : submitLog[f] = narration_segments[r + 1]


\* ------------------------------------------------------------------ C17
NarrationIndices == {narration_segments[r] : r \in 1..Len(narration_segments)}

Unsubmitted(i) == \A f \in 1..Len(submitLog) : submitLog[f] # i
IsOutstanding(i) == \E f \in DOMAIN future_to_index : future_to_index[f] = i
IsCompletedUnplayed(i) == i \in DOMAIN processed_segments
Consumed(i) == \E k \in 1..Len(events) : NarrationTurn(events[k]) /\ events[k].idx = i

\* 0 not submitted, 1 outstanding, 2 completed-unplayed, 3 consumed.
Stage(i) ==
    IF Consumed(i) THEN 3
    ELSE IF IsCompletedUnplayed(i) THEN 2
    ELSE IF IsOutstanding(i) THEN 1
    ELSE 0

ExactlyOneStage(i) ==
    Cardinality({q \in {"unsubmitted", "outstanding", "completed", "consumed"} :
        \/ q = "unsubmitted" /\ Unsubmitted(i)
        \/ q = "outstanding" /\ IsOutstanding(i)
        \/ q = "completed" /\ IsCompletedUnplayed(i)
        \/ q = "consumed" /\ Consumed(i)}) = 1

\* C17: every narration index is in exactly one of the states not yet
\* submitted, outstanding, completed-unplayed and consumed; a task leaves
\* future_to_index in the step that records its result (the file or the
\* no-audio marker) under its index; and no index moves backwards.
C17_FourStates ==
    /\ [](\A i \in NarrationIndices : ExactlyOneStage(i))
    /\ [][/\ \A i \in NarrationIndices : Stage(i)' >= Stage(i)
          /\ \A f \in DOMAIN future_to_index :
                f \notin DOMAIN future_to_index' =>
                    /\ future_to_index[f] \in DOMAIN processed_segments'
                    /\ processed_segments'[future_to_index[f]] =
                           (IF futures[f] = "ok" THEN f ELSE 0)
         ]_vars

\* All four states are inhabited at once.
C17_Witness ==
    \E i0, i1, i2, i3 \in NarrationIndices :
        Stage(i0) = 0 /\ Stage(i1) = 1 /\ Stage(i2) = 2 /\ Stage(i3) = 3

\* ------------------------------------------------------------------ C18
\* C18: at normal completion future_to_index and processed_segments are
\* empty, every narration has been submitted, and no temporary audio file
\* remains.
C18_NothingLeftOver ==
    pc = "done" =>
        /\ DOMAIN future_to_index = {}
        /\ DOMAIN processed_segments = {}
        /\ \A i \in NarrationIndices : ~Unsubmitted(i)
        /\ files = {}

====
